---- MODULE Spec2Model ----
(***************************************************************************)
(* Model of radiverse/utils.py: the Dicom class (series loading, stacking, *)
(* Hounsfield calibration, windowing) and the apply_windowing kernel.      *)
(*                                                                         *)
(* Numbers.  Pixel values, z positions, window widths and centers are      *)
(* integers.  Rescale slope and intercept are rationals [n, d] with a      *)
(* power-of-two denominator d > 0 in lowest terms, so that every float64   *)
(* product the code forms is exact.  Window limits are kept doubled        *)
(* (min2 = 2 * min_val) because set_window adds 0.5.                       *)
(***************************************************************************)
EXTENDS Integers, Sequences, FiniteSets

VARIABLES
    fs,          \* what the path names on disk: [kind, entries]
    status,      \* "new" (no constructor call yet), "ok" (object exists), "error"
    err,         \* exception type raised by the constructor, "" if none
    stage,       \* constructor step that raised: "load", "stack", "hu", "str"
    data,        \* self.data
    pixel_data,  \* self.pixel_data
    hu_images,   \* self.hu_images
    hu0,         \* history: self.hu_images as computed by the constructor
    prev,        \* history: self.hu_images on entry to the latest set_window
    last,        \* history: <<[width, center]>> of the latest set_window, or <<>>
    calls        \* history: number of set_window calls so far

vars == <<fs, status, err, stage, data, pixel_data, hu_images, hu0, prev, last, calls>>

(***************************************************************************)
(* Bounds of the model.                                                    *)
(***************************************************************************)
MaxSlices == 2
MaxZ == 3
MaxCalls == 2

(***************************************************************************)
(* Program constants.                                                      *)
(***************************************************************************)
PaddingValue == -2048
DisplayMax == 255
Int16Min == -32768
Int16Max == 32767

Rat(n, d) == [n |-> n, d |-> d]
One == Rat(1, 1)

\* C cast of a real to an integer type: truncation toward zero of n / d, d > 0.
Trunc(n, d) == IF n >= 0 THEN n \div d ELSE -((-n) \div d)

\* Integer-to-int16 conversion and int16 arithmetic wrap modulo 2^16.
ToInt16(x) == ((x - Int16Min) % (Int16Max - Int16Min + 1)) + Int16Min

InInt16(x) == Int16Min <= x /\ x <= Int16Max

(***************************************************************************)
(* Files.  A directory entry is a record                                   *)
(*   dcm       the name matches "*.dcm"                                    *)
(*   valid     pydicom.dcmread decodes it                                  *)
(*   zkind     "num": ImagePositionPatient[2] is numeric (value z);        *)
(*             "absent": the attribute is missing;                         *)
(*             "nonnumeric": float() rejects the component;                *)
(*             "none": the attribute is None                               *)
(*   pix       pixel_array, flattened; its length stands for its shape     *)
(*   slope, intercept   RescaleSlope, RescaleIntercept                     *)
(*   meta      the header fields __str__ prints are all present            *)
(***************************************************************************)
File(dcm, valid, zkind, z, pix, slope, intercept, meta) ==
    [dcm |-> dcm, valid |-> valid, zkind |-> zkind, z |-> z, pix |-> pix,
     slope |-> slope, intercept |-> intercept, meta |-> meta]

Slice(z, pix, slope, intercept) == File(TRUE, TRUE, "num", z, pix, slope, intercept, TRUE)

(***************************************************************************)
(* Dicom._load_data                                                        *)
(***************************************************************************)
\* glob(os.path.join(path, "*.dcm")): the matching entries, in listing order.
Glob(entries) == SelectSeq(entries, LAMBDA f : f.dcm)

\* The least index in S, 0 if S is empty: where a left-to-right pass raises first.
First(S) == IF S = {} THEN 0 ELSE CHOOSE i \in S : \A j \in S : i <= j

\* The sort key float(x.ImagePositionPatient[2]) of a slice with a numeric z.
SortKey(x) == x.z

RECURSIVE InsertAsc(_, _)
\* Variant of InsertDesc: the sort without reverse=True (ascending).
InsertAsc(sorted, x) ==
    IF sorted = <<>> THEN <<x>>
    ELSE IF SortKey(Head(sorted)) <= SortKey(x)
         THEN <<Head(sorted)>> \o InsertAsc(Tail(sorted), x)
         ELSE <<x>> \o sorted

RECURSIVE InsertDesc(_, _)
InsertDesc(sorted, x) ==
    IF sorted = <<>> THEN <<x>>
    ELSE IF SortKey(Head(sorted)) >= SortKey(x)
         THEN <<Head(sorted)>> \o InsertDesc(Tail(sorted), x)
         ELSE <<x>> \o sorted

RECURSIVE SortDesc(_)
\* list.sort(key=..., reverse=True): descending and stable.
SortDesc(s) ==
    IF s = <<>> THEN <<>>
    ELSE InsertDesc(SortDesc(SubSeq(s, 1, Len(s) - 1)), s[Len(s)])

\* Exception raised while the sort evaluates the key of slice x.
KeyError(x) ==
    CASE x.zkind = "absent" -> "AttributeError"
      [] x.zkind = "nonnumeric" -> "ValueError"
      [] x.zkind = "none" -> "RuntimeError"
      [] OTHER -> ""

Loaded(d) == [err |-> "", data |-> d]
Raised(e) == [err |-> e, data |-> <<>>]

\* Variant of load_data: slices without a usable z are left in listing order.
load_data_unordered(path) ==
    IF path.kind = "file" THEN
        IF path.entries[1].valid THEN Loaded(<<path.entries[1]>>)
        ELSE Raised("RuntimeError")
    ELSE IF path.kind = "dir" THEN
        LET dcm_files == Glob(path.entries)
            undecodable == First({i \in 1..Len(dcm_files) : ~dcm_files[i].valid})
            unkeyed == First({i \in 1..Len(dcm_files) : dcm_files[i].zkind # "num"})
        IN  IF undecodable # 0 THEN Raised("RuntimeError")
            ELSE IF unkeyed # 0 THEN Loaded(dcm_files)
            ELSE Loaded(SortDesc(dcm_files))
    ELSE Raised("ValueError")

load_data(path) ==
    IF path.kind = "file" THEN
        IF path.entries[1].valid THEN Loaded(<<path.entries[1]>>)
        ELSE Raised("RuntimeError")
    ELSE IF path.kind = "dir" THEN
        LET dcm_files == Glob(path.entries)
            undecodable == First({i \in 1..Len(dcm_files) : ~dcm_files[i].valid})
            unkeyed == First({i \in 1..Len(dcm_files) : dcm_files[i].zkind # "num"})
        IN  IF undecodable # 0 THEN Raised("RuntimeError")
            ELSE IF unkeyed # 0 THEN Raised(KeyError(dcm_files[unkeyed]))
            ELSE Loaded(SortDesc(dcm_files))
    ELSE Raised("ValueError")

(***************************************************************************)
(* Dicom._get_pixel_data                                                   *)
(***************************************************************************)
\* Variant of Stackable: a stack that accepts an empty list.
StackableEmptyOk(d) == \A i \in 1..Len(d) : Len(d[i].pix) = Len(d[1].pix)

\* np.stack raises ValueError on an empty list and on arrays of unequal shape.
Stackable(d) == d # <<>> /\ \A i \in 1..Len(d) : Len(d[i].pix) = Len(d[1].pix)

get_pixel_data(d) == [i \in 1..Len(d) |-> d[i].pix]

(***************************************************************************)
(* Dicom._get_hu_images                                                    *)
(***************************************************************************)
\* Variant of PadCorrected: the padding value is not reset.
PadKept(v) == ToInt16(v)

\* images = pixel_data.astype(np.int16); images[images == -2048] = 0
PadCorrected(v) == LET x == ToInt16(v) IN IF x = PaddingValue THEN 0 ELSE x

\* Variant of Scaled: the product is rounded down instead of toward zero.
ScaledFloor(x, slope) == IF slope # One THEN (slope.n * x) \div slope.d ELSE x

\* images[index] = slope * images[index].astype(np.float64), stored as int16.
Scaled(x, slope) == IF slope # One THEN Trunc(slope.n * x, slope.d) ELSE x

\* Variant of AddIntercept: the sum saturates at the int16 limits.
AddInterceptSaturating(x, intercept) ==
    LET sum == x + Trunc(intercept.n, intercept.d)
    IN  IF sum > Int16Max THEN Int16Max ELSE IF sum < Int16Min THEN Int16Min ELSE sum

\* images[index] += np.int16(intercept)
AddIntercept(x, intercept) == ToInt16(x + Trunc(intercept.n, intercept.d))

HuPixel(v, slope, intercept) == AddIntercept(Scaled(PadCorrected(v), slope), intercept)

get_hu_images(d, pixels) ==
    [i \in 1..Len(d) |->
        [j \in 1..Len(pixels[i]) |-> HuPixel(pixels[i][j], d[i].slope, d[i].intercept)]]

(***************************************************************************)
(* Dicom.__str__, called by print(self) at the end of __init__             *)
(***************************************************************************)
\* d = self.data[0] raises IndexError on an empty list; reading a header field
\* that is missing raises AttributeError.
StrError(d) ==
    IF d = <<>> THEN "IndexError"
    ELSE IF ~d[1].meta THEN "AttributeError"
    ELSE ""

(***************************************************************************)
(* Dicom.__init__: the three derivations, then print(self).                *)
(***************************************************************************)
Built(d, pixels, hu) ==
    [status |-> "ok", err |-> "", stage |-> "", data |-> d, pixel_data |-> pixels,
     hu_images |-> hu]

Failed(at, e) ==
    [status |-> "error", err |-> e, stage |-> at, data |-> <<>>, pixel_data |-> <<>>,
     hu_images |-> <<>>]

DicomInit(path) ==
    LET loaded == load_data(path)
        d == loaded.data
        pixels == get_pixel_data(d)
    IN  IF loaded.err # "" THEN Failed("load", loaded.err)
        ELSE IF ~Stackable(d) THEN Failed("stack", "ValueError")
        ELSE IF StrError(d) # "" THEN Failed("str", StrError(d))
        ELSE Built(d, pixels, get_hu_images(d, pixels))

(***************************************************************************)
(* apply_windowing and Dicom.set_window                                    *)
(*                                                                         *)
(* The kernel evaluates (v - min_val) / (max_val - min_val + 1e-8) * 255   *)
(* in float64, clips to [0, 255] and casts to uint8.  With min2 and max2   *)
(* the doubled limits, the quotient is 255 * (2v - min2) / (w2 + 2e-8),    *)
(* w2 = max2 - min2.  For |v| < 2^16 and integer limits the quotients      *)
(* 255 * (2v - min2) / w2 are at least 1 / |w2| apart from the next        *)
(* integer unless they are integers, which is far more than the 1e-8 term  *)
(* and the float64 rounding move them; so the 1e-8 term acts as a positive *)
(* infinitesimal eps: it decides the result only when w2 = 0 or when the   *)
(* exact quotient is an integer.                                           *)
(***************************************************************************)
\* min_val = (2 * center - width) / 2.0 + 0.5, doubled.
MinVal2(width, center) == 2 * center - width + 1

\* max_val = (2 * center + width) / 2.0 + 0.5, doubled.
MaxVal2(width, center) == 2 * center + width + 1

\* Variant of Denominator: max_val - min_val without the 1e-8 term.
DenominatorUnguarded(min2, max2) == [w2 |-> max2 - min2, eps |-> 0]

\* max_val - min_val + 1e-8, doubled: w2 + 2 * eps * 1e-8.
Denominator(min2, max2) == [w2 |-> max2 - min2, eps |-> 1]

\* The division is defined unless the denominator is exactly zero.
DivisionFault(den) == den.w2 = 0 /\ den.eps = 0

\* Variant of ClipCast: the quotient rounded down, neither clipped nor cast.
Unclipped(num2, den) ==
    IF den.w2 > 0 THEN (DisplayMax * num2) \div den.w2
    ELSE IF den.w2 < 0 THEN (-(DisplayMax * num2)) \div (-den.w2)
    ELSE DisplayMax * num2

\* Variant of ClipCast: the quotient cast to uint8 without np.clip (wraps).
WrapCast(num2, den) == Unclipped(num2, den) % (DisplayMax + 1)

\* np.clip(q, 0, 255).astype(np.uint8) of q = 255 * num2 / (den.w2 + 2 * eps * 1e-8).
ClipCast(num2, den) ==
    LET n == DisplayMax * num2
    IN  IF den.w2 > 0 THEN
            IF n <= 0 THEN 0
            ELSE IF den.eps > 0
                 THEN IF n > DisplayMax * den.w2 THEN DisplayMax
                      ELSE IF n % den.w2 = 0 THEN (n \div den.w2) - 1
                      ELSE n \div den.w2
                 ELSE IF n >= DisplayMax * den.w2 THEN DisplayMax
                      ELSE n \div den.w2
        ELSE IF den.w2 < 0 THEN
            IF n >= 0 THEN 0
            ELSE IF -n >= DisplayMax * (-den.w2) THEN DisplayMax
            ELSE (-n) \div (-den.w2)
        ELSE IF num2 > 0 THEN DisplayMax ELSE 0

WindowPixel(v, min2, max2) == ClipCast(2 * v - min2, Denominator(min2, max2))

apply_windowing(image, min2, max2) ==
    [i \in 1..Len(image) |->
        [j \in 1..Len(image[i]) |-> WindowPixel(image[i][j], min2, max2)]]

Windows ==
    { [width |-> 350, center |-> 60], [width |-> 80, center |-> 40],
      [width |-> 1500, center |-> -400], [width |-> 0, center |-> 60],
      [width |-> 0, center |-> -115], [width |-> -80, center |-> 40] }

(***************************************************************************)
(* Actions                                                                 *)
(***************************************************************************)
\* Dicom(path)
Construct ==
    /\ status = "new"
    /\ LET r == DicomInit(fs)
       IN  /\ status' = r.status
           /\ err' = r.err
           /\ stage' = r.stage
           /\ data' = r.data
           /\ pixel_data' = r.pixel_data
           /\ hu_images' = r.hu_images
           /\ hu0' = r.hu_images
    /\ UNCHANGED <<fs, prev, last, calls>>

\* dicom.set_window(width, center)
SetWindow(width, center) ==
    /\ status = "ok"
    /\ calls < MaxCalls
    /\ LET min2 == MinVal2(width, center)
           max2 == MaxVal2(width, center)
       IN  IF DivisionFault(Denominator(min2, max2))
           THEN /\ status' = "error"
                /\ err' = "ZeroDivisionError"
                /\ stage' = "window"
                /\ hu_images' = hu_images
           ELSE /\ hu_images' = apply_windowing(hu_images, min2, max2)
                /\ UNCHANGED <<status, err, stage>>
    /\ prev' = hu_images
    /\ last' = <<[width |-> width, center |-> center]>>
    /\ calls' = calls + 1
    /\ UNCHANGED <<fs, data, pixel_data, hu0>>

Next ==
    \/ Construct
    \/ \E win \in Windows : SetWindow(win.width, win.center)

(***************************************************************************)
(* Initial states: the path's content on disk, no object built yet.        *)
(***************************************************************************)
Fresh ==
    /\ status = "new" /\ err = "" /\ stage = ""
    /\ data = <<>> /\ pixel_data = <<>> /\ hu_images = <<>>
    /\ hu0 = <<>> /\ prev = <<>> /\ last = <<>> /\ calls = 0

Path(kind, entries) == [kind |-> kind, entries |-> entries]

SeqsUpTo(S, n) == UNION { [1..k -> S] : k \in 0..n }

\* Series of CT slices, including the scenario raw [-2048, 0, 100], slope 1,
\* intercept -1024, and the ways a file of the series can be defective.
Ct == Rat(-1024, 1)
Half == Rat(1, 2)
SeriesPix == { <<-2048, 0, 100>>, <<3, -7, 2000>> }
SeriesFiles ==
    { Slice(z, pix, One, Ct) : z \in 1..MaxZ, pix \in SeriesPix }
    \cup { Slice(MaxZ, <<-2048, 3, 101>>, Half, Ct),
           Slice(1, <<5>>, One, Ct),
           File(TRUE, TRUE, "absent", 0, <<-2048, 0, 100>>, One, Ct, TRUE),
           File(TRUE, TRUE, "nonnumeric", 0, <<-2048, 0, 100>>, One, Ct, TRUE),
           File(TRUE, TRUE, "none", 0, <<-2048, 0, 100>>, One, Ct, TRUE),
           File(TRUE, FALSE, "num", 1, <<>>, One, Ct, TRUE),
           File(TRUE, TRUE, "num", 1, <<-2048, 0, 100>>, One, Ct, FALSE),
           File(FALSE, FALSE, "num", 0, <<>>, One, Ct, TRUE) }

SeriesPaths ==
    { Path("neither", <<>>) }
    \cup { Path("file", <<f>>) : f \in SeriesFiles }
    \cup { Path("dir", fsq) : fsq \in SeqsUpTo(SeriesFiles, MaxSlices) }

Init == fs \in SeriesPaths /\ Fresh

Spec == Init /\ [][Next]_vars

(***************************************************************************)
(* Calibration inputs: one slice of one pixel, read as a file or found in  *)
(* a directory, over raw values, slopes and intercepts that include the    *)
(* padding value, a uint16 value that wraps onto it, the int16 limits and  *)
(* fractional calibration constants.  Combinations whose product           *)
(* slope * raw leaves the int16 range are left out: the float-to-int16     *)
(* store of such a product has no defined result.                          *)
(***************************************************************************)
RawValues == { -32768, -2049, -2048, -3, 0, 3, 100, 2047, 32767, 63488 }
Slopes == { One, Half, Rat(3, 2), Rat(2, 1), Rat(-1, 1) }
Intercepts == { Ct, Rat(-2049, 2), Rat(0, 1), Rat(1, 1), Rat(3, 2), Rat(-1, 1) }

ProductInRange(v, slope) ==
    slope # One => InInt16(Trunc(slope.n * PadCorrected(v), slope.d))

CalibrationPaths ==
    { Path(kind, <<Slice(1, <<v>>, slope, intercept)>>) :
        kind \in {"file", "dir"},
        v \in RawValues,
        slope \in Slopes, intercept \in Intercepts }

InitHU ==
    /\ fs \in { p \in CalibrationPaths :
                  ProductInRange(p.entries[1].pix[1], p.entries[1].slope) }
    /\ Fresh

SpecHU == InitHU /\ [][Next]_vars

(***************************************************************************)
(* Windowing inputs: one slice of two pixels that is its own HU volume     *)
(* (slope 1, intercept 0), over values around the limits of the windows.   *)
(***************************************************************************)
Zero == Rat(0, 1)
ProbeValues ==
    { -32768, -2000, -1150, -116, -115, -114, -1, 0, 1, 40, 41, 60, 61, 79, 80, 81,
      100, 235, 236, 237, 254, 255, 256, 350, 351, 3000, 32767 }

WindowingPaths ==
    { Path("file", <<Slice(1, <<a, b>>, One, Zero)>>) : a \in ProbeValues, b \in ProbeValues }

InitWin == fs \in WindowingPaths /\ Fresh

SpecWin == InitWin /\ [][Next]_vars

(***************************************************************************)
(* Properties                                                              *)
(***************************************************************************)
Pixels(volume) ==
    UNION { { <<i, j>> : j \in 1..Len(volume[i]) } : i \in 1..Len(volume) }

At(volume, p) == volume[p[1]][p[2]]

Windowed == status = "ok" /\ calls >= 1

LastWidth == last[1].width

LastCenter == last[1].center

\* C1: after one or more set_window calls the display volume is the window
\* transform, under the latest (center, width), of the HU volume computed at
\* load time.
C1_LatestWindowOfLoadedHU ==
    Windowed =>
        hu_images = apply_windowing(hu0, MinVal2(LastWidth, LastCenter),
                                    MaxVal2(LastWidth, LastCenter))

Raw(p) == PadCorrected(At(pixel_data, p))

SlopeAt(p) == data[p[1]].slope

InterceptAt(p) == data[p[1]].intercept

Whole(q) == q.d = 1

\* The slices with slope 1 and an integer intercept representable in int16.
Additive(p) == SlopeAt(p) = One /\ Whole(InterceptAt(p)) /\ InInt16(InterceptAt(p).n)

\* C2 as stated: for a slice with slope 1 and an integer int16 intercept every
\* HU element equals raw (after padding correction) plus intercept exactly.
C2_AdditiveExact ==
    status = "ok" =>
        \A p \in Pixels(hu0) :
            Additive(p) => At(hu0, p) = Raw(p) + InterceptAt(p).n

\* C2 amended: for such a slice every HU element is an int16 value congruent to
\* raw + intercept modulo 2^16, hence equal to it whenever the sum is an int16.
C2_AdditiveWraps ==
    status = "ok" =>
        \A p \in Pixels(hu0) :
            Additive(p) =>
                /\ InInt16(At(hu0, p))
                /\ (At(hu0, p) - (Raw(p) + InterceptAt(p).n)) % 65536 = 0
                /\ InInt16(Raw(p) + InterceptAt(p).n)
                       => At(hu0, p) = Raw(p) + InterceptAt(p).n

C2_Witness ==
    /\ status = "ok"
    /\ \E p \in Pixels(hu0) :
          /\ Additive(p)
          /\ Raw(p) + InterceptAt(p).n > Int16Max
          /\ At(hu0, p) < 0

\* C3 as stated: a raw element equal to the padding value -2048 has HU value
\* exactly the slice's rescale intercept, whatever the slope.
C3_PaddingIsIntercept ==
    status = "ok" =>
        \A p \in Pixels(hu0) :
            At(pixel_data, p) = PaddingValue
                => At(hu0, p) * InterceptAt(p).d = InterceptAt(p).n

\* C3 amended: such an element has HU value the slice's intercept with its
\* fraction dropped (toward zero), which is the intercept when that is whole.
C3_PaddingIsTruncatedIntercept ==
    status = "ok" =>
        \A p \in Pixels(hu0) :
            At(pixel_data, p) = PaddingValue =>
                LET h == At(hu0, p)
                    c == InterceptAt(p)
                IN  /\ c.n >= 0 => (h * c.d <= c.n /\ c.n < (h + 1) * c.d)
                    /\ c.n < 0 => (h * c.d >= c.n /\ c.n > (h - 1) * c.d)

C3_Witness ==
    /\ status = "ok"
    /\ \E p \in Pixels(hu0) :
          /\ At(pixel_data, p) = PaddingValue
          /\ SlopeAt(p) # One
          /\ ~Whole(InterceptAt(p))
          /\ At(hu0, p) = -1024

\* The slices with slope other than 1 whose product slope * raw and sum
\* slope * raw + intercept both lie in the int16 range.
Multiplicative(p) ==
    LET sl == SlopeAt(p)
        c == InterceptAt(p)
        prod == sl.n * Raw(p)
        sum == prod * c.d + c.n * sl.d
    IN  /\ sl # One
        /\ Int16Min * sl.d <= prod /\ prod <= Int16Max * sl.d
        /\ Int16Min * sl.d * c.d <= sum /\ sum <= Int16Max * sl.d * c.d

\* C9 as stated: for a slice with slope other than 1 every HU element is
\* slope * raw + intercept, evaluated as one real number and then truncated
\* toward zero.
C9_TruncatedSum ==
    status = "ok" =>
        \A p \in Pixels(hu0) :
            Multiplicative(p) =>
                LET sl == SlopeAt(p)
                    c == InterceptAt(p)
                IN  At(hu0, p) = Trunc(sl.n * Raw(p) * c.d + c.n * sl.d, sl.d * c.d)

\* C9 amended: every such HU element is the product slope * raw truncated
\* toward zero plus the intercept truncated toward zero.
C9_SumOfTruncations ==
    status = "ok" =>
        \A p \in Pixels(hu0) :
            Multiplicative(p) =>
                LET sl == SlopeAt(p)
                    c == InterceptAt(p)
                IN  At(hu0, p) = Trunc(sl.n * Raw(p), sl.d) + Trunc(c.n, c.d)

C9_Witness ==
    /\ status = "ok"
    /\ \E p \in Pixels(hu0) :
          /\ Multiplicative(p)
          /\ SlopeAt(p) = Half
          /\ Raw(p) = 3
          /\ InterceptAt(p) = Ct
          /\ At(hu0, p) = -1023

Matching == IF fs.kind = "file" THEN fs.entries ELSE Glob(fs.entries)

\* C4: a series loaded from a directory is non-increasing in z from each slice to
\* the next, and the raw and HU volumes are stacked in that same slice order.
C4_DescendingZ ==
    (status = "ok" /\ fs.kind = "dir") =>
        /\ Len(data) = Len(Matching)
        /\ \A i \in 1..(Len(data) - 1) : data[i].z >= data[i + 1].z
        /\ Len(pixel_data) = Len(data) /\ Len(hu0) = Len(data)
        /\ \A i \in 1..Len(data) :
              /\ pixel_data[i] = data[i].pix
              /\ Len(hu0[i]) = Len(data[i].pix)
              /\ \A j \in 1..Len(hu0[i]) :
                    hu0[i][j] = HuPixel(data[i].pix[j], data[i].slope, data[i].intercept)

C4_Witness ==
    /\ status = "ok" /\ fs.kind = "dir"
    /\ Len(data) = 2
    /\ fs.entries[1].z < fs.entries[2].z
    /\ data[1] = fs.entries[2] /\ data[2] = fs.entries[1]
    /\ pixel_data[1] # pixel_data[2]

\* C6: constructing from a directory with no file matching the extension fails
\* with the error of the stacking step and leaves no object; an object that
\* exists never holds an empty slice list or an empty volume.
C6_EmptyDirectoryFails ==
    /\ (status # "new" /\ fs.kind = "dir" /\ Matching = <<>>) =>
            (status = "error" /\ err = "ValueError" /\ stage = "stack")
    /\ status = "ok" => (data # <<>> /\ pixel_data # <<>> /\ hu_images # <<>>)
    /\ status = "error" => (data = <<>> /\ pixel_data = <<>> /\ hu_images = <<>>)

C6_Witness ==
    /\ fs.kind = "dir" /\ Len(fs.entries) >= 1 /\ Matching = <<>>
    /\ status = "error" /\ stage = "stack"

\* Some slice of the series being loaded lacks a numeric z component.
ZDefective == \E i \in 1..Len(Matching) : Matching[i].valid /\ Matching[i].zkind # "num"

\* C7 as stated: if z is absent or non-numeric on any slice, loading fails and
\* yields no series, for a single file as for a directory.
C7_DefectiveZFails ==
    (status # "new" /\ ZDefective) => (status = "error" /\ stage = "load" /\ data = <<>>)

\* C7 amended: the same for a directory path only.
C7_DefectiveZFailsInDirectory ==
    (status # "new" /\ fs.kind = "dir" /\ ZDefective) =>
        (status = "error" /\ stage = "load" /\ data = <<>>)

C7_Witness ==
    /\ fs.kind = "dir" /\ Len(Matching) = 2
    /\ Matching[1].zkind = "num" /\ Matching[2].zkind = "absent"
    /\ status = "error" /\ stage = "load" /\ err = "AttributeError"

InByteRange(volume) == \A p \in Pixels(volume) : At(volume, p) \in 0..DisplayMax

\* C5: for width > 0 every element stored by set_window is an integer in
\* [0, 255], whether the input was the HU volume or an earlier display volume.
C5_DisplayRange ==
    (Windowed /\ LastWidth > 0) => InByteRange(hu_images)

C5_Witness ==
    /\ Windowed /\ LastWidth > 0 /\ calls = 2
    /\ \E p, q \in Pixels(hu_images) :
          /\ At(hu0, p) < -1000 /\ At(prev, p) = 0 /\ At(hu_images, p) = 0
          /\ At(hu0, q) > 1000 /\ At(prev, q) = DisplayMax
          /\ At(hu_images, q) = DisplayMax

\* C8: for width > 0, a <= b among the input values implies
\* display(a) <= display(b).
C8_Monotone ==
    (Windowed /\ LastWidth > 0) =>
        \A p, q \in Pixels(prev) :
            At(prev, p) <= At(prev, q) => At(hu_images, p) <= At(hu_images, q)

C8_Witness ==
    /\ Windowed /\ LastWidth > 0
    /\ \E p, q \in Pixels(prev) :
          /\ At(prev, p) < At(prev, q)
          /\ 0 < At(hu_images, p) /\ At(hu_images, p) < At(hu_images, q)
          /\ At(hu_images, q) < DisplayMax

\* C10: with width = 0 the call completes without a division fault, the
\* denominator used is not zero, and every output element is in [0, 255].
C10_ZeroWidthCompletes ==
    (status # "new" /\ calls >= 1 /\ LastWidth = 0) =>
        /\ status = "ok"
        /\ ~DivisionFault(Denominator(MinVal2(0, LastCenter), MaxVal2(0, LastCenter)))
        /\ InByteRange(hu_images)

C10_Witness ==
    /\ Windowed /\ LastWidth = 0
    /\ \E p, q \in Pixels(hu_images) :
          /\ At(prev, p) = LastCenter /\ At(hu_images, p) = 0
          /\ At(prev, q) = LastCenter + 1 /\ At(hu_images, q) = DisplayMax

====
